---------------------------- MODULE Spec2Model ----------------------------
(***************************************************************************)
(* Model of dtklp_wrapper/modules.py: the ctypes binding Lib and the       *)
(* scoped wrappers EngineParams, ImageEngine, Result and Plate.            *)
(*                                                                         *)
(* The native library is the environment.  Every foreign call the binding  *)
(* issues is appended to `trace`, with the handle it was given, its other  *)
(* arguments and what the native side answered.  A create-style call       *)
(* answers with a fresh handle, with the null handle, or raises; a query   *)
(* answers with a value or raises; a destroy call returns nothing.         *)
(***************************************************************************)
EXTENDS Integers, Sequences, FiniteSets, TLC

(* ------------------------------ bounds --------------------------------- *)
MaxEnters == 2      \* EngineParams scopes entered in one behaviour
MaxScans == 1       \* Result scope runs in one behaviour
MaxDepth == 2       \* nesting depth of the caller's with-blocks
MaxPlates == 2      \* largest plate count the native side reports
MaxFaults == 1      \* native calls that raise or answer with a null handle
MaxBuf == 2         \* largest buffer_size given to Lib
MaxChecks == 1      \* is_licensed and activate calls in one behaviour
MaxCode == 1        \* largest status code the native side answers with
MaxText == 2        \* longest plate text the native side holds
MaxImage == 1       \* longest image the caller passes
MaxKey == 1         \* longest license key the caller passes, in characters

(* ---------------------------- Python values ---------------------------- *)
\* An attribute that was never assigned (reading it raises AttributeError).
Unset == -1
\* The null handle a failed native create call answers with.
NullHandle == 0
\* Argument slot of a call that takes no handle.
NoHandle == -2

VARIABLES
    BUF_SIZE,   \* Lib.BUF_SIZE
    pobj,       \* EngineParams.obj of each EngineParams wrapper
    eparams,    \* ImageEngine.params: "None", or the wrapper it names
    eobj,       \* ImageEngine.obj
    stack,      \* wrappers whose with-block the caller is inside, innermost last
    exc,        \* "none", or "error" while an exception is propagating
    trace,      \* the foreign calls issued so far
    pc,         \* position inside a Result scope run
    robj,       \* Result.obj
    plates_count, \* Result.plates_count
    plates,     \* Result.plates
    idx,        \* loop variable i of Result._load
    plobj,      \* Plate.obj
    text,       \* Plate.text
    result      \* what the last finished operation gave its caller

vars == <<BUF_SIZE, pobj, eparams, eobj, stack, exc, trace, pc, robj,
          plates_count, plates, idx, plobj, text, result>>

scanVars == <<pc, robj, plates_count, plates, idx, plobj, text>>
wrapVars == <<pobj, eparams, eobj>>

\* "P" is the EngineParams the caller constructs, "Q" the one ImageEngine
\* constructs for itself when it was given none.
Wrappers == {"P", "Q"}

(* --------------------------- the call trace ---------------------------- *)
\* op(h, arg) answered ret after writing out into the caller's buffer;
\* st is "raise" when the call raised instead of returning.
Call(op, h, arg, out, ret, st) ==
    [op |-> op, h |-> h, arg |-> arg, out |-> out, ret |-> ret, st |-> st]

CreateOps == {"create_params", "create_engine", "read_from_mem", "get_plate"}
DestroyOps == {"destroy_params", "destroy_engine", "destroy_result", "destroy_plate"}

\* How many calls of op the trace t holds.
Count(op, t) == Cardinality({k \in DOMAIN t : t[k].op = op})

\* How many licensing calls the trace t holds.
LicCalls(t) == Count("engine_licensed", t) + Count("activate_online", t)

\* Positions of the create-style calls of t that answered with a handle.
Created(t) ==
    {k \in DOMAIN t : t[k].op \in CreateOps /\ t[k].st = "ok" /\ t[k].ret # NullHandle}

Faults(t) ==
    Cardinality({k \in DOMAIN t :
        t[k].st = "raise" \/ (t[k].op \in CreateOps /\ t[k].ret = NullHandle)})

\* The native side never hands out a live handle twice: model handles as
\* consecutive fresh tokens.
FreshHandle(t) == 1 + Cardinality(Created(t))

\* What a create-style native call may do.
CreateOutcomes(t) ==
    {"ok"} \cup (IF Faults(t) < MaxFaults THEN {"null", "raise"} ELSE {})

\* What a native query may do.
QueryOutcomes(t) ==
    {"ok"} \cup (IF Faults(t) < MaxFaults THEN {"raise"} ELSE {})

CreateRet(o, t) ==
    IF o = "ok" THEN FreshHandle(t) ELSE NullHandle

St(o) == IF o = "raise" THEN "raise" ELSE "ok"

(* ------------------------------- Lib ----------------------------------- *)
create_params(o, t) ==
    Append(t, Call("create_params", NoHandle, <<>>, <<>>, CreateRet(o, t), St(o)))

destroy_params(params_obj, t) ==
    Append(t, Call("destroy_params", params_obj, <<>>, <<>>, 0, "ok"))

\* vid_mode and callback are recorded as 0 for False / None.
create_engine(params_obj, vid_mode, callback, o, t) ==
    Append(t, Call("create_engine", params_obj, <<vid_mode, callback>>, <<>>,
                   CreateRet(o, t), St(o)))

destroy_engine(engine_obj, t) ==
    Append(t, Call("destroy_engine", engine_obj, <<>>, <<>>, 0, "ok"))

\* engine_licensed that tears the engine down when it is not licensed.
engine_licensed_Destroying(engine_obj, code, t) ==
    IF code = 0
    THEN Append(t, Call("engine_licensed", engine_obj, <<>>, <<>>, code, "ok"))
    ELSE Append(Append(t, Call("destroy_engine", engine_obj, <<>>, <<>>, 0, "ok")),
                Call("engine_licensed", engine_obj, <<>>, <<>>, code, "ok"))

engine_licensed(engine_obj, code, t) ==
    Append(t, Call("engine_licensed", engine_obj, <<>>, <<>>, code, "ok"))

\* The license keys the caller passes, as sequences of code points: the
\* first character is U+00E9, the others are "A".
Keys == {[k \in 1..n |-> IF k = 1 THEN 233 ELSE 65] : n \in 1..MaxKey}

\* str.encode(): UTF-8, one byte below U+0080, two bytes below U+0800.
RECURSIVE KeyEncode(_)
KeyEncode(key) ==
    IF key = <<>> THEN <<>>
    ELSE (IF Head(key) < 128
          THEN <<Head(key)>>
          ELSE <<192 + (Head(key) \div 64), 128 + (Head(key) % 64)>>)
         \o KeyEncode(Tail(key))

\* ct.create_string_buffer(init, size): size bytes, init copied to the front.
CreateStringBuffer(init, size) ==
    [k \in 1..size |-> IF k <= Len(init) THEN init[k] ELSE 0]

\* activate_online passing a NUL-terminated copy of the key.
activate_online_Terminated(key, code, t) ==
    Append(t, Call("activate_online", NoHandle,
                   CreateStringBuffer(KeyEncode(key), Len(KeyEncode(key)) + 1),
                   <<>>, code, "ok"))

\* ba = bytearray(key.encode()); data = ct.create_string_buffer(bytes(ba), len(ba))
\* return self.lib.LPREngine_ActivateLicenseOnline(data)
\* arg is the buffer the native call is given.
activate_online(key, code, t) ==
    Append(t, Call("activate_online", NoHandle,
                   CreateStringBuffer(KeyEncode(key), Len(KeyEncode(key))),
                   <<>>, code, "ok"))

\* The images the caller passes and the plate texts the native side holds,
\* as byte sequences.
Images == {[k \in 1..n |-> k] : n \in 1..MaxImage}
PlateTexts == {[k \in 1..n |-> 64 + k] : n \in 1..MaxText}

Min(a, b) == IF a <= b THEN a ELSE b
Max(a, b) == IF a >= b THEN a ELSE b
Take(s, n) == SubSeq(s, 1, Min(n, Len(s)))

\* ba = bytearray(buffer); data = ct.create_string_buffer(bytes(ba), len(ba))
\* return self.lib.LPREngine_ReadFromMemFile(engine_obj, data, len(ba))
read_from_mem(engine_obj, buffer, o, t) ==
    Append(t, Call("read_from_mem", engine_obj, <<Len(buffer)>> \o buffer, <<>>,
                   CreateRet(o, t), St(o)))

destroy_result(result_obj, t) ==
    Append(t, Call("destroy_result", result_obj, <<>>, <<>>, 0, "ok"))

get_plates_count(result_obj, n, o, t) ==
    Append(t, Call("get_plates_count", result_obj, <<>>, <<>>,
                   IF o = "raise" THEN 0 ELSE n, St(o)))

get_plate(result_obj, index, o, t) ==
    Append(t, Call("get_plate", result_obj, <<index>>, <<>>, CreateRet(o, t), St(o)))

destroy_plate(plate_obj, t) ==
    Append(t, Call("destroy_plate", plate_obj, <<>>, <<>>, 0, "ok"))

\* What LicensePlate_GetText leaves in a zeroed buffer of cap bytes when the
\* plate reads txt: as much of txt as fits, the rest of the buffer still 0.
NativeWrite(txt, cap) ==
    [k \in 1..cap |-> IF k <= Len(txt) THEN txt[k] ELSE 0]

\* ctypes .value of a char array: the bytes before the first NUL.
RECURSIVE CValue(_)
CValue(buf) ==
    IF buf = <<>> \/ Head(buf) = 0 THEN <<>> ELSE <<Head(buf)>> \o CValue(Tail(buf))

\* Python b[0:n]
PySlice(b, n) ==
    IF n >= 0 THEN Take(b, n) ELSE Take(b, Max(Len(b) + n, 0))

\* str(b) of a bytes object b of printable bytes is its repr: b'...'
PyStr(b) == <<98, 39>> \o b \o <<39>>

\* get_plate_text with a buffer of one byte whatever BUF_SIZE is.
get_plate_text_OneByte(plate_obj, cap, txt, o, t) ==
    Append(t, Call("get_plate_text", plate_obj, <<1>>,
                   IF o = "raise" THEN <<>>
                   ELSE [k \in 1..1 |-> IF k <= Len(txt) THEN txt[k] ELSE 0],
                   IF o = "raise" THEN 0 ELSE IF Len(txt) < 1 THEN Len(txt) ELSE 1,
                   St(o)))

\* data = ct.create_string_buffer(self.BUF_SIZE)
\* writen = self.lib.LicensePlate_GetText(plate_obj, data, self.BUF_SIZE)
\* return str(data.value[0:writen])
GetPlateTextValue(buf, writen) == PyStr(PySlice(CValue(buf), writen))

get_plate_text(plate_obj, cap, txt, o, t) ==
    Append(t, Call("get_plate_text", plate_obj, <<cap>>,
                   IF o = "raise" THEN <<>> ELSE NativeWrite(txt, cap),
                   IF o = "raise" THEN 0 ELSE Min(Len(txt), cap), St(o)))

(* ------------------------ the with statement --------------------------- *)
\* The four wrappers: EngineParams, ImageEngine, Result, Plate.
Scopes == {"P", "E", "R", "L"}

\* A wrapper's __exit__ that wrongly returns True for the Plate scope.
ExitReturn_PlateTrue(w) == (w = "L")

\* What __exit__ of wrapper w returns: every __exit__ here ends without a
\* return statement, so it returns None, which is false.
ExitReturn(w) == FALSE

\* The exception state after __exit__ of w has run: a true return value
\* suppresses the exception that was propagating.
AfterExit(e, w) == IF ExitReturn(w) THEN "none" ELSE e

\* An exit that ran while an exception was propagating gives its caller
\* that exception, not a value.
ExitResult(e, w, old, new) == IF AfterExit(e, w) = "error" THEN old ELSE new

(* --------------------------- EngineParams ------------------------------ *)
\* EngineParams.__enter__ that validates the handle and fails on null.
EngineParamsEnter_Checked(w, o, t, po) ==
    [trace |-> create_params(o, t),
     pobj  |-> IF o # "ok" THEN po ELSE [po EXCEPT ![w] = CreateRet(o, t)],
     raised |-> (o # "ok"),
     ret   |-> CreateRet(o, t)]

\* __enter__: self.obj = self.lib.create_params(); return self.obj
\* The assignment does not happen when the call raises.
EngineParamsEnter(w, o, t, po) ==
    [trace |-> create_params(o, t),
     pobj  |-> IF o = "raise" THEN po ELSE [po EXCEPT ![w] = CreateRet(o, t)],
     raised |-> (o = "raise"),
     ret   |-> CreateRet(o, t)]

\* __exit__: self.lib.destroy_params(self.obj)
EngineParamsExit(w, t, po) == destroy_params(po[w], t)

(* ---------------------------- ImageEngine ------------------------------ *)
\* if not self.params: self.params = EngineParams(self.lib)
OwnParams(ep) == IF ep = "None" THEN "Q" ELSE ep

NoResult == [op |-> "none", st |-> "none", native |-> 0, flag |-> FALSE,
             found |-> 0, plates |-> <<>>, key |-> <<>>]

Init ==
    /\ BUF_SIZE \in 1..MaxBuf
    /\ pobj = [w \in Wrappers |-> Unset]
    /\ eparams \in {"None", "P"}
    /\ eobj = Unset
    /\ stack = <<>>
    /\ exc = "none"
    /\ trace = <<>>
    /\ pc = "idle"
    /\ robj = Unset
    /\ plates_count = 0
    /\ plates = <<>>
    /\ idx = 0
    /\ plobj = Unset
    /\ text = <<>>
    /\ result = NoResult

\* The caller may start an operation: nothing is propagating, no scope run
\* is under way.
Ready == exc = "none" /\ pc = "idle"

\* with p: ...   (EngineParams.__enter__ on the caller's wrapper)
ParamsEnter ==
    /\ Ready
    /\ Len(stack) < MaxDepth
    /\ Count("create_params", trace) < MaxEnters
    /\ \E o \in CreateOutcomes(trace) :
         LET r == EngineParamsEnter("P", o, trace, pobj) IN
         /\ trace' = r.trace
         /\ pobj' = r.pobj
         /\ stack' = IF r.raised THEN stack ELSE Append(stack, "P")
         /\ exc' = IF r.raised THEN "error" ELSE "none"
         /\ result' = [NoResult EXCEPT !.op = "params_enter",
                          !.st = IF r.raised THEN "raised" ELSE "returned",
                          !.native = r.ret]
    /\ UNCHANGED <<BUF_SIZE, eparams, eobj, scanVars>>

Top == stack[Len(stack)]
Pop == SubSeq(stack, 1, Len(stack) - 1)

\* Leaving the caller's  with p:  block, normally or with an exception
\* propagating: __exit__ returns None, so the exception is not suppressed.
ParamsExit ==
    /\ pc = "idle"
    /\ stack # <<>> /\ Top = "P"
    /\ trace' = EngineParamsExit("P", trace, pobj)
    /\ stack' = Pop
    /\ exc' = AfterExit(exc, "P")
    /\ result' = ExitResult(exc, "P", result,
                            [NoResult EXCEPT !.op = "params_exit", !.st = "returned"])
    /\ UNCHANGED <<BUF_SIZE, wrapVars, scanVars>>

\* ImageEngineEnter creating the engine in video mode.
ImageEngineEnter_Video(o1, o2, t, po, ep, eo) ==
    LET w  == OwnParams(ep)
        r1 == EngineParamsEnter(w, o1, t, po)
        t2 == create_engine(r1.ret, 1, 0, o2, r1.trace)
    IN  IF r1.raised
        THEN [trace |-> r1.trace, pobj |-> r1.pobj, eparams |-> w,
              eobj |-> eo, raised |-> TRUE]
        ELSE [trace |-> EngineParamsExit(w, t2, r1.pobj), pobj |-> r1.pobj,
              eparams |-> w,
              eobj |-> IF o2 = "raise" THEN eo ELSE CreateRet(o2, r1.trace),
              raised |-> (o2 = "raise")]

\* ImageEngineEnter with create_engine called outside a with statement:
\* the parameter handle is not destroyed when create_engine raises.
ImageEngineEnter_NoScope(o1, o2, t, po, ep, eo) ==
    LET w  == OwnParams(ep)
        r1 == EngineParamsEnter(w, o1, t, po)
        t2 == create_engine(r1.ret, 0, 0, o2, r1.trace)
    IN  IF r1.raised
        THEN [trace |-> r1.trace, pobj |-> r1.pobj, eparams |-> w,
              eobj |-> eo, raised |-> TRUE]
        ELSE [trace |-> IF o2 = "raise" THEN t2 ELSE EngineParamsExit(w, t2, r1.pobj),
              pobj |-> r1.pobj, eparams |-> w,
              eobj |-> IF o2 = "raise" THEN eo ELSE CreateRet(o2, r1.trace),
              raised |-> (o2 = "raise")]

\* __enter__:
\*   if not self.params: self.params = EngineParams(self.lib)
\*   with self.params as ep:
\*       self.obj = self.lib.create_engine(ep, False, None)
\*   return self
\* o1 and o2 are what the native side does in create_params and
\* create_engine.  When EngineParams.__enter__ raises, the with statement
\* runs neither its body nor __exit__; when create_engine raises, self.obj
\* keeps its old value and __exit__ still runs.
ImageEngineEnter(o1, o2, t, po, ep, eo) ==
    LET w  == OwnParams(ep)
        r1 == EngineParamsEnter(w, o1, t, po)
        t2 == create_engine(r1.ret, 0, 0, o2, r1.trace)
    IN  IF r1.raised
        THEN [trace |-> r1.trace, pobj |-> r1.pobj, eparams |-> w,
              eobj |-> eo, raised |-> TRUE]
        ELSE [trace |-> EngineParamsExit(w, t2, r1.pobj), pobj |-> r1.pobj,
              eparams |-> w,
              eobj |-> IF o2 = "raise" THEN eo ELSE CreateRet(o2, r1.trace),
              raised |-> (o2 = "raise")]

\* __exit__: self.lib.destroy_engine(self.obj)
ImageEngineExit(t, eo) == destroy_engine(eo, t)

\* is_licensed taking every non-positive code for "licensed".
IsLicensedResult_NonPositive(res) == (res <= 0)

\* is_licensed: res = self.lib.engine_licensed(self.obj); return res == 0
IsLicensedResult(res) == (res = 0)

\* with e: ...   (ImageEngine.__enter__)
EngineEnter ==
    /\ Ready
    /\ Len(stack) < MaxDepth
    /\ Count("create_params", trace) < MaxEnters
    /\ \E o1 \in CreateOutcomes(trace) :
       \E o2 \in CreateOutcomes(create_params(o1, trace)) :
         LET r == ImageEngineEnter(o1, o2, trace, pobj, eparams, eobj) IN
         /\ (o1 = "raise" => o2 = "ok")
         /\ trace' = r.trace
         /\ pobj' = r.pobj
         /\ eparams' = r.eparams
         /\ eobj' = r.eobj
         /\ stack' = IF r.raised THEN stack ELSE Append(stack, "E")
         /\ exc' = IF r.raised THEN "error" ELSE "none"
         /\ result' = [NoResult EXCEPT !.op = "engine_enter",
                          !.st = IF r.raised THEN "raised" ELSE "returned",
                          !.native = r.eobj]
    /\ UNCHANGED <<BUF_SIZE, scanVars>>

\* Leaving the caller's  with e:  block, normally or with an exception
\* propagating.
EngineExit ==
    /\ pc = "idle"
    /\ stack # <<>> /\ Top = "E"
    /\ trace' = ImageEngineExit(trace, eobj)
    /\ stack' = Pop
    /\ exc' = AfterExit(exc, "E")
    /\ result' = ExitResult(exc, "E", result,
                            [NoResult EXCEPT !.op = "engine_exit", !.st = "returned"])
    /\ UNCHANGED <<BUF_SIZE, wrapVars, scanVars>>

\* e.is_licensed(), at any moment after e was constructed.  Reading
\* self.obj before the first __enter__ raises AttributeError and no foreign
\* call is made.
IsLicensed ==
    /\ Ready
    /\ LicCalls(trace) < MaxChecks
    /\ IF eobj = Unset
       THEN /\ exc' = "error"
            /\ result' = [NoResult EXCEPT !.op = "is_licensed", !.st = "raised"]
            /\ UNCHANGED trace
       ELSE \E code \in -1..MaxCode :
            /\ trace' = engine_licensed(eobj, code, trace)
            /\ result' = [NoResult EXCEPT !.op = "is_licensed", !.st = "returned",
                             !.native = code, !.flag = IsLicensedResult(code)]
            /\ UNCHANGED exc
    /\ UNCHANGED <<BUF_SIZE, wrapVars, stack, scanVars>>

\* activate: res = self.lib.activate_online(key); return res == 0
ActivateResult(res) == (res = 0)

\* e.activate(key), at any moment after e was constructed: it reads no
\* field of the engine but self.lib.
Activate ==
    /\ Ready
    /\ LicCalls(trace) < MaxChecks
    /\ \E key \in Keys, code \in -1..MaxCode :
         /\ trace' = activate_online(key, code, trace)
         /\ result' = [NoResult EXCEPT !.op = "activate", !.st = "returned",
                          !.native = code, !.flag = ActivateResult(code),
                          !.key = key]
    /\ UNCHANGED <<BUF_SIZE, wrapVars, stack, exc, scanVars>>

\* process: res = Result(self.lib.read_from_mem(bytes), self.lib)
\* Lib.read_from_mem(self, engine_obj, buffer) is called with one argument:
\* the call raises TypeError while Python binds the arguments, before any
\* foreign call and before a Result is constructed.
Process ==
    /\ Ready
    /\ exc' = "error"
    /\ result' = [NoResult EXCEPT !.op = "process", !.st = "raised"]
    /\ UNCHANGED <<BUF_SIZE, wrapVars, stack, trace, scanVars>>

(* ------------------------- Result and Plate ---------------------------- *)
\* The with statement of process, run by a caller that gives read_from_mem
\* both of its arguments:
\*   res = Result(lib.read_from_mem(e.obj, image), lib)
\*   with res:
\*       return res.describe()
\* Each foreign call is one step; pc is the position in this code.

\* The error is swallowed and what was loaded so far is described.
Raise_Partial ==
    /\ pc' = "describe"
    /\ UNCHANGED <<exc, result>>

\* An exception leaves the scope run; no __exit__ runs for a scope whose
\* __enter__ has not returned.
Raise ==
    /\ pc' = "idle"
    /\ exc' = "error"
    /\ result' = [NoResult EXCEPT !.op = "scan", !.st = "raised"]

\* Lib.read_from_mem, then Result.__init__: self.obj = obj
ReadFromMem ==
    /\ Ready
    /\ eobj # Unset
    /\ \E k \in DOMAIN stack : stack[k] = "E"
    /\ Count("read_from_mem", trace) < MaxScans
    /\ \E image \in Images, o \in CreateOutcomes(trace) :
         /\ trace' = read_from_mem(eobj, image, o, trace)
         /\ IF o = "raise"
            THEN Raise /\ UNCHANGED robj
            ELSE /\ robj' = CreateRet(o, trace)
                 /\ pc' = "result_enter"
                 /\ result' = [NoResult EXCEPT !.op = "scan", !.st = "running"]
                 /\ UNCHANGED exc
    /\ UNCHANGED <<BUF_SIZE, wrapVars, stack, plates_count, plates, idx, plobj, text>>

\* The loop of Result._load running one index too far.
LoopPc_Inclusive(i, n) == IF i <= n THEN "get_plate" ELSE "describe"

\* for i in range(self.plates_count): the next position of Result._load
LoopPc(i, n) == IF i < n THEN "get_plate" ELSE "describe"

\* Result.__enter__ -> _load:
\*   self.plates_count = self.lib.get_plates_count(self.obj); self.plates = []
ResultLoadCount ==
    /\ pc = "result_enter"
    /\ \E n \in -1..MaxPlates, o \in QueryOutcomes(trace) :
         /\ trace' = get_plates_count(robj, n, o, trace)
         /\ IF o = "raise"
            THEN Raise /\ UNCHANGED <<plates_count, plates, idx>>
            ELSE /\ plates_count' = n
                 /\ plates' = <<>>
                 /\ idx' = 0
                 /\ pc' = LoopPc(0, n)
                 /\ UNCHANGED <<exc, result>>
    /\ UNCHANGED <<BUF_SIZE, wrapVars, stack, robj, plobj, text>>

\* Plate(self.lib.get_plate(self.obj, i), self.lib)
ResultGetPlate ==
    /\ pc = "get_plate"
    /\ \E o \in CreateOutcomes(trace) :
         /\ trace' = get_plate(robj, idx, o, trace)
         /\ IF o = "raise"
            THEN Raise /\ UNCHANGED plobj
            ELSE /\ plobj' = CreateRet(o, trace)
                 /\ pc' = "plate_enter"
                 /\ UNCHANGED <<exc, result>>
    /\ UNCHANGED <<BUF_SIZE, wrapVars, stack, robj, plates_count, plates, idx, text>>

\* PlateEnter releasing the plate before it reads the text.
PlateEnter_DestroyFirst ==
    /\ pc = "plate_enter"
    /\ \E txt \in PlateTexts, o \in QueryOutcomes(trace) :
         /\ trace' = get_plate_text(plobj, BUF_SIZE, txt, o, destroy_plate(plobj, trace))
         /\ IF o = "raise"
            THEN Raise /\ UNCHANGED text
            ELSE /\ text' = GetPlateTextValue(NativeWrite(txt, BUF_SIZE),
                                              Min(Len(txt), BUF_SIZE))
                 /\ pc' = "plate_body"
                 /\ UNCHANGED <<exc, result>>
    /\ UNCHANGED <<BUF_SIZE, wrapVars, stack, robj, plates_count, plates, idx, plobj>>

\* Plate.__enter__ -> _load: self.text = self.lib.get_plate_text(self.obj)
PlateEnter ==
    /\ pc = "plate_enter"
    /\ \E txt \in PlateTexts, o \in QueryOutcomes(trace) :
         /\ trace' = get_plate_text(plobj, BUF_SIZE, txt, o, trace)
         /\ IF o = "raise"
            THEN Raise /\ UNCHANGED text
            ELSE /\ text' = GetPlateTextValue(NativeWrite(txt, BUF_SIZE),
                                              Min(Len(txt), BUF_SIZE))
                 /\ pc' = "plate_body"
                 /\ UNCHANGED <<exc, result>>
    /\ UNCHANGED <<BUF_SIZE, wrapVars, stack, robj, plates_count, plates, idx, plobj>>

\* What the body of a with statement over a Result or a Plate may do besides
\* completing: raise (MemoryError from append or from building the dict, an
\* interrupt).
BodyOutcomes(t) ==
    {"ok"} \cup (IF Faults(t) < MaxFaults THEN {"raise"} ELSE {})

\* self.plates.append(pl.describe())
PlateBody ==
    /\ pc = "plate_body"
    /\ \E o \in BodyOutcomes(trace) :
         /\ plates' = IF o = "raise" THEN plates ELSE Append(plates, text)
         /\ exc' = IF o = "raise" THEN "error" ELSE exc
    /\ pc' = "plate_exit"
    /\ UNCHANGED <<BUF_SIZE, wrapVars, stack, trace, robj, plates_count,
                   idx, plobj, text, result>>

\* PlateExit that keeps the plate handle and goes on to the next plate.
PlateExit_NoDestroy ==
    /\ pc = "plate_exit"
    /\ exc' = AfterExit(exc, "L")
    /\ IF AfterExit(exc, "L") = "error"
       THEN /\ pc' = "idle"
            /\ result' = [NoResult EXCEPT !.op = "scan", !.st = "raised"]
            /\ UNCHANGED idx
       ELSE /\ idx' = idx + 1
            /\ pc' = LoopPc(idx + 1, plates_count)
            /\ UNCHANGED result
    /\ UNCHANGED <<BUF_SIZE, wrapVars, stack, trace, robj, plates_count, plates,
                   plobj, text>>

\* Plate.__exit__: self.lib.destroy_plate(self.obj); then the next i, or the
\* exception of the body goes on out of Result._load and Result.__enter__.
PlateExit ==
    /\ pc = "plate_exit"
    /\ trace' = destroy_plate(plobj, trace)
    /\ exc' = AfterExit(exc, "L")
    /\ IF AfterExit(exc, "L") = "error"
       THEN /\ pc' = "idle"
            /\ result' = [NoResult EXCEPT !.op = "scan", !.st = "raised"]
            /\ UNCHANGED idx
       ELSE /\ idx' = idx + 1
            /\ pc' = LoopPc(idx + 1, plates_count)
            /\ UNCHANGED result
    /\ UNCHANGED <<BUF_SIZE, wrapVars, stack, robj, plates_count, plates,
                   plobj, text>>

\* Result.describe: {"found": self.plates_count, "plates": self.plates}
Describe(n, ps) == [found |-> n, plates |-> ps]

\* The body of  with res:  evaluates res.describe() for the return.
ResultDescribe ==
    /\ pc = "describe"
    /\ \E o \in BodyOutcomes(trace) :
         IF o = "raise"
         THEN exc' = "error" /\ UNCHANGED result
         ELSE /\ result' = [NoResult EXCEPT !.op = "scan", !.st = "pending",
                              !.found = Describe(plates_count, plates).found,
                              !.plates = Describe(plates_count, plates).plates]
              /\ UNCHANGED exc
    /\ pc' = "result_exit"
    /\ UNCHANGED <<BUF_SIZE, wrapVars, stack, trace, robj, plates_count,
                   plates, idx, plobj, text>>

\* Result.__exit__: self.lib.destroy_result(self.obj); then the return
ResultExit ==
    /\ pc = "result_exit"
    /\ trace' = destroy_result(robj, trace)
    /\ exc' = AfterExit(exc, "R")
    /\ result' = IF exc = "error"
                 THEN [NoResult EXCEPT !.op = "scan",
                          !.st = IF AfterExit(exc, "R") = "error"
                                 THEN "raised" ELSE "returned"]
                 ELSE [result EXCEPT !.st = "returned"]
    /\ pc' = "idle"
    /\ UNCHANGED <<BUF_SIZE, wrapVars, stack, robj, plates_count, plates,
                   idx, plobj, text>>

\* The caller handles the exception at the current level.
Catch ==
    /\ pc = "idle"
    /\ exc = "error"
    /\ exc' = "none"
    /\ UNCHANGED <<BUF_SIZE, wrapVars, stack, trace, scanVars, result>>

Next ==
    \/ ParamsEnter
    \/ ParamsExit
    \/ EngineEnter
    \/ EngineExit
    \/ IsLicensed
    \/ Activate
    \/ Process
    \/ ReadFromMem
    \/ ResultLoadCount
    \/ ResultGetPlate
    \/ PlateEnter
    \/ PlateBody
    \/ PlateExit
    \/ ResultDescribe
    \/ ResultExit
    \/ Catch

Spec == Init /\ [][Next]_vars

(* ------------------------------ claims --------------------------------- *)
\* The destroy function of each create-style call.
Destroyer(op) ==
    CASE op = "create_params" -> "destroy_params"
      [] op = "create_engine" -> "destroy_engine"
      [] op = "read_from_mem" -> "destroy_result"
      [] op = "get_plate" -> "destroy_plate"

DestroyCount(h, dop, t) ==
    Cardinality({j \in DOMAIN t : t[j].op = dop /\ t[j].h = h})

\* Position of the read_from_mem call of the latest Result scope run.
LastRead(t) ==
    CHOOSE r \in DOMAIN t :
        /\ t[r].op = "read_from_mem"
        /\ \A j \in DOMAIN t : t[j].op = "read_from_mem" => j <= r

\* Decoding ASCII bytes gives the code points with the same numbers.
Decode(b) == b

\* What the native side holds as the text of a plate: the bytes it wrote.
NativeText(c) == Decode(CValue(c.out))

\* The successful get_plate_text calls after position r, in call order.
TextCalls(t, r) ==
    SelectSeq([k \in 1..(Len(t) - r) |-> t[r + k]],
              LAMBDA c : c.op = "get_plate_text" /\ c.st = "ok")

\* C1: once a run of the with statement of process has ended, by return or
\* by an exception, every handle that read_from_mem or get_plate created in
\* it has been passed to its destroy function exactly once.
C1_ProcessHandlesReleased ==
    pc = "idle" =>
        \A k \in Created(trace) :
            trace[k].op \in {"read_from_mem", "get_plate"} =>
                DestroyCount(trace[k].ret, Destroyer(trace[k].op), trace) = 1

\* C2: a finished process call has returned a description; and a returned
\* description has found = len(plates) = n >= 0, the plate count the native
\* side reported, and plates[i] is the text of the i-th native plate.
C2_DescriptionMatchesNative ==
    /\ result.op = "process" => result.st = "returned"
    /\ (result.op \in {"process", "scan"} /\ result.st = "returned") =>
          LET r  == LastRead(trace)
              tc == TextCalls(trace, r)
          IN  /\ trace[r + 1].ret >= 0 =>
                    /\ result.found = trace[r + 1].ret
                    /\ Len(result.plates) = result.found
              /\ Len(tc) = Len(result.plates)
              /\ \A i \in DOMAIN tc : result.plates[i] = NativeText(tc[i])

\* C3: a finished process call has made one read_from_mem call, on the
\* engine's own handle, and has returned the description of its Result.
C3_ProcessReadsOnce ==
    result.op = "process" =>
        /\ result.st = "returned"
        /\ Count("read_from_mem", trace) = 1
        /\ \A k \in DOMAIN trace :
              trace[k].op = "read_from_mem" => trace[k].h = eobj

\* Number of wrappers w the caller is inside.
Inside(w) == Cardinality({k \in DOMAIN stack : stack[k] = w})

Returned(op, t) == Cardinality({k \in DOMAIN t : t[k].op = op /\ t[k].st = "ok"})

\* EngineParams and ImageEngine scopes: every with statement that was left
\* has issued its destroy call.
C4_ParamsAndEngineLeft ==
    /\ Count("destroy_params", trace) = Returned("create_params", trace) - Inside("P")
    /\ Count("destroy_engine", trace) = Returned("create_engine", trace) - Inside("E")

\* Result and Plate scopes: once the with statement over the wrapper has
\* been left, the handle the wrapper holds has had its destroy call.
C4_ResultAndPlateLeft ==
    /\ (pc = "idle" /\ robj # Unset) =>
          DestroyCount(robj, "destroy_result", trace) >= 1
    /\ (pc \notin {"plate_enter", "plate_body", "plate_exit"} /\ plobj # Unset) =>
          DestroyCount(plobj, "destroy_plate", trace) >= 1

\* C4: for each of the four wrappers, leaving its with statement, normally
\* or by an exception raised while the handle is open, has issued the
\* destroy call for the handle the wrapper holds.
C4_ScopeLeftDestroys == C4_ParamsAndEngineLeft /\ C4_ResultAndPlateLeft

\* C5: no handle is passed to its destroy function more than once.
C5_NoDoubleDestroy ==
    \A j, k \in DOMAIN trace :
        (/\ trace[j].op \in DestroyOps
         /\ trace[k].op = trace[j].op
         /\ trace[k].h = trace[j].h
         /\ trace[j].h # NullHandle) => j = k

\* C6: no foreign call is given a handle after that handle's destroy call,
\* and the engine wrapper is opened at most once.
C6_ClosedIsTerminal ==
    /\ \A j, k \in DOMAIN trace :
          (/\ j < k
           /\ trace[j].op \in DestroyOps
           /\ trace[j].h # NullHandle) => trace[k].h # trace[j].h
    /\ Returned("create_engine", trace) <= 1

\* C7: every create_engine call comes directly after the create_params call
\* whose handle it is given and directly before the destroy_params call on
\* that handle, also when create_engine raises; and an engine that was given
\* no params has made its own EngineParams by then.
C7_ParamsAroundCreateEngine ==
    /\ \A k \in DOMAIN trace :
          trace[k].op = "create_engine" =>
              /\ k > 1 /\ k < Len(trace)
              /\ trace[k - 1].op = "create_params"
              /\ trace[k - 1].st = "ok"
              /\ trace[k].h = trace[k - 1].ret
              /\ trace[k + 1].op = "destroy_params"
              /\ trace[k + 1].h = trace[k].h
    /\ Count("create_engine", trace) > 0 => eparams # "None"

C7_Witness ==
    /\ eparams = "Q"
    /\ \E k \in DOMAIN trace :
          /\ trace[k].op = "create_engine" /\ trace[k].st = "raise"
          /\ trace[k + 1].op = "destroy_params"
          /\ trace[k + 1].h = trace[k].h

\* C8: a destroy_plate call comes directly after the get_plate_text call on
\* the same handle; every get_plates_count and get_plate call on a result
\* handle comes before the destroy_result call on it, which get_plates_count
\* has preceded; and the description returned after destroy_result is the
\* count and the texts those calls answered with.
C8_LoadBeforeDestroy ==
    /\ \A k \in DOMAIN trace :
          trace[k].op = "destroy_plate" =>
              /\ k > 1
              /\ trace[k - 1].op = "get_plate_text"
              /\ trace[k - 1].st = "ok"
              /\ trace[k - 1].h = trace[k].h
    /\ \A k \in DOMAIN trace :
          (trace[k].op = "destroy_result" /\ trace[k].h # NullHandle) =>
              /\ \E j \in 1..(k - 1) :
                    trace[j].op = "get_plates_count" /\ trace[j].h = trace[k].h
              /\ \A j \in DOMAIN trace :
                    (/\ trace[j].op \in {"get_plates_count", "get_plate"}
                     /\ trace[j].h = trace[k].h) => j < k
    /\ (result.op = "scan" /\ result.st = "returned") =>
          LET r  == LastRead(trace)
              tc == TextCalls(trace, r)
          IN  /\ result.found = trace[r + 1].ret
              /\ result.plates = [i \in DOMAIN tc |->
                                     GetPlateTextValue(tc[i].out, tc[i].ret)]

C8_Witness ==
    /\ result.op = "scan" /\ result.st = "returned"
    /\ result.found = 1 /\ Len(result.plates) = 1
    /\ trace[Len(trace)].op = "destroy_result"

\* C9: when a run returns a description, the calls of that run are
\* read_from_mem, get_plates_count, then for each plate in turn get_plate,
\* get_plate_text and destroy_plate on the handle get_plate answered with,
\* and last destroy_result on the result handle: nothing follows it before
\* the return.
C9_ReleaseOrder ==
    (result.op = "scan" /\ result.st = "returned") =>
        LET r == LastRead(trace)
            n == Max(trace[r + 1].ret, 0)
        IN  /\ Len(trace) = r + 2 + 3 * n
            /\ trace[r + 1].op = "get_plates_count"
            /\ \A i \in 0..(n - 1) :
                  LET g == trace[r + 2 + 3 * i] IN
                  /\ g.op = "get_plate" /\ g.h = trace[r].ret /\ g.arg = <<i>>
                  /\ trace[r + 3 + 3 * i].op = "get_plate_text"
                  /\ trace[r + 3 + 3 * i].h = g.ret
                  /\ trace[r + 4 + 3 * i].op = "destroy_plate"
                  /\ trace[r + 4 + 3 * i].h = g.ret
            /\ trace[Len(trace)].op = "destroy_result"
            /\ trace[Len(trace)].h = trace[r].ret

C9_Witness ==
    /\ result.op = "scan" /\ result.st = "returned"
    /\ result.found = 2
    /\ Count("destroy_plate", trace) = 2
    /\ Count("destroy_result", trace) = 1

\* C10: an is_licensed call on an engine that has a handle returns a
\* boolean, never raises, and returns true exactly when the native
\* LPREngine_IsLicensed call on that handle answered 0.
C10_LicensedIffZero ==
    result.op = "is_licensed" =>
        IF eobj = Unset
        THEN result.st = "raised"
        ELSE /\ result.st = "returned"
             /\ result.flag \in BOOLEAN
             /\ result.flag <=> (result.native = 0)
             /\ trace[Len(trace)].op = "engine_licensed"
             /\ trace[Len(trace)].h = eobj
             /\ trace[Len(trace)].ret = result.native

C10_Witness ==
    /\ result.op = "is_licensed" /\ result.st = "returned"
    /\ result.native < 0 /\ result.flag = FALSE

\* C11: activate returns true exactly when the native
\* LPREngine_ActivateLicenseOnline call answered 0, and the buffer that call
\* is given holds the UTF-8 bytes of the key and nothing else: same
\* contents, same length.
C11_ActivateIffZero ==
    result.op = "activate" =>
        LET c == trace[Len(trace)] IN
        /\ result.st = "returned"
        /\ result.flag <=> (result.native = 0)
        /\ c.op = "activate_online"
        /\ c.ret = result.native
        /\ Len(c.arg) = Len(KeyEncode(result.key))
        /\ c.arg = KeyEncode(result.key)

C11_Witness ==
    /\ result.op = "activate" /\ result.flag = TRUE
    /\ result.key = <<233>>
    /\ trace[Len(trace)].arg = <<195, 169>>


\* C12: when get_plate_text has returned and the native side reported a
\* written length w below the buffer size, the text is the first w bytes it
\* wrote, decoded, and nothing else.
C12_TextIsWrittenPrefix ==
    pc = "plate_body" =>
        LET c == trace[Len(trace)] IN
        c.ret < BUF_SIZE => text = Decode(Take(c.out, c.ret))

\* C13: BUF_SIZE never changes, and every get_plate_text call passes it as
\* the capacity of a buffer of exactly that many bytes.
C13_BufferSizeFixed ==
    /\ [][BUF_SIZE' = BUF_SIZE]_vars
    /\ [](\A k \in DOMAIN trace :
            trace[k].op = "get_plate_text" =>
                /\ trace[k].arg = <<BUF_SIZE>>
                /\ trace[k].st = "ok" => Len(trace[k].out) = BUF_SIZE)

C13_Witness ==
    /\ BUF_SIZE = 2
    /\ \E k \in DOMAIN trace :
          /\ trace[k].op = "get_plate_text" /\ trace[k].st = "ok"
          /\ trace[k].arg = <<2>> /\ Len(trace[k].out) = 2

\* The calls of op in the latest Result scope run, in call order.
RunCalls(op, t) ==
    SelectSeq([k \in 1..(Len(t) - LastRead(t)) |-> t[LastRead(t) + k]],
              LAMBDA c : c.op = op)

\* C14: in a Result scope run get_plates_count is called once and
\* plates_count is what it answered; the get_plate calls carry the indexes
\* 0, 1, 2, ... in this order, all below the count; when loading has
\* finished there is one for each index below the count, and none, with
\* plates empty, when the count is zero or negative; found is the count.
C14_EnumerationOrder ==
    /\ pc \notin {"idle", "result_enter"} =>
          LET gc == RunCalls("get_plates_count", trace)
              gp == RunCalls("get_plate", trace)
          IN  /\ Len(gc) = 1
              /\ plates_count = gc[1].ret
              /\ \A i \in DOMAIN gp : gp[i].arg = <<i - 1>> /\ i <= plates_count
              /\ pc = "describe" =>
                    /\ Len(gp) = Max(plates_count, 0)
                    /\ Len(plates) = Len(gp)
                    /\ plates_count <= 0 => (gp = <<>> /\ plates = <<>>)
    /\ (result.op = "scan" /\ result.st \in {"pending", "returned"}) =>
          result.found = RunCalls("get_plates_count", trace)[1].ret

C14_Witness ==
    /\ result.op = "scan" /\ result.st = "returned"
    /\ result.found = -1 /\ result.plates = <<>>
    /\ Count("get_plate", trace) = 0


\* A create-style call that answered with the null handle.
NullCreate(c) == c.op \in CreateOps /\ c.st = "ok" /\ c.ret = NullHandle

\* C15: a null handle is taken like any other: the wrapper stores it, raises
\* nothing, and passes it to the calls that follow (create_engine,
\* get_plates_count, get_plate_text) and to the matching destroy call; an
\* enter raises only when a native call raised.
C15_NullHandlePropagates ==
    /\ \A k \in DOMAIN trace :
          NullCreate(trace[k]) =>
              /\ trace[k].op = "create_params" =>
                    /\ k = Len(trace) =>
                          (stack # <<>> /\ Top = "P" /\ pobj["P"] = NullHandle)
                    /\ (k < Len(trace) /\ trace[k + 1].op = "create_engine") =>
                          /\ trace[k + 1].h = NullHandle
                          /\ trace[k + 2].op = "destroy_params"
                          /\ trace[k + 2].h = NullHandle
              /\ (trace[k].op = "create_engine" /\ k + 1 = Len(trace)) =>
                    (stack # <<>> /\ Top = "E" /\ eobj = NullHandle)
              /\ trace[k].op = "read_from_mem" =>
                    /\ k = Len(trace) =>
                          (pc = "result_enter" /\ robj = NullHandle /\ exc = "none")
                    /\ k < Len(trace) =>
                          /\ trace[k + 1].op = "get_plates_count"
                          /\ trace[k + 1].h = NullHandle
              /\ trace[k].op = "get_plate" =>
                    /\ k = Len(trace) =>
                          (pc = "plate_enter" /\ plobj = NullHandle /\ exc = "none")
                    /\ k < Len(trace) =>
                          /\ trace[k + 1].op = "get_plate_text"
                          /\ trace[k + 1].h = NullHandle
                    /\ (k + 1 < Len(trace) /\ trace[k + 1].st = "ok") =>
                          /\ trace[k + 2].op = "destroy_plate"
                          /\ trace[k + 2].h = NullHandle
    /\ (result.op \in {"params_enter", "engine_enter"} /\ result.st = "raised") =>
          \E k \in DOMAIN trace : trace[k].st = "raise"
    /\ (result.op = "scan" /\ result.st = "returned"
          /\ trace[LastRead(trace)].ret = NullHandle) =>
          /\ trace[Len(trace)].op = "destroy_result"
          /\ trace[Len(trace)].h = NullHandle

C15_Witness ==
    /\ result.op = "scan" /\ result.st = "returned"
    /\ trace[LastRead(trace)].ret = NullHandle
    /\ \E k \in DOMAIN trace :
          trace[k].op = "get_plates_count" /\ trace[k].h = NullHandle
    /\ trace[Len(trace)].h = NullHandle

\* C16: every create_engine call has vid_mode False and callback None.
C16_StillImageNoCallback ==
    \A k \in DOMAIN trace :
        trace[k].op = "create_engine" => trace[k].arg = <<0, 0>>

C16_Witness ==
    /\ eparams = "P"
    /\ Cardinality({k \in DOMAIN trace :
          trace[k].op = "create_engine" /\ trace[k].st = "ok"}) = 2

\* C17: when get_plate or get_plate_text raises in a Result scope run, no
\* further plate call is made in that run, the run is over, and it gives
\* its caller no description: a run that describes has had no call raise.
C17_RaiseEndsRun ==
    /\ \A k \in DOMAIN trace :
          (trace[k].st = "raise" /\ trace[k].op \in {"get_plate", "get_plate_text"}) =>
              /\ \A j \in DOMAIN trace :
                    (j > k /\ trace[j].op \in {"get_plate", "get_plate_text",
                                               "destroy_plate", "destroy_result"}) =>
                        \E m \in (k + 1)..j : trace[m].op = "read_from_mem"
              /\ k = Len(trace) =>
                    /\ pc = "idle"
                    /\ ~(result.op = "scan"
                         /\ result.st \in {"running", "pending", "returned"})
    /\ (result.op = "scan" /\ result.st \in {"pending", "returned"}) =>
          \A k \in DOMAIN trace : k > LastRead(trace) => trace[k].st = "ok"

C17_Witness ==
    /\ result.op = "scan" /\ result.st = "raised"
    /\ result.plates = <<>>
    /\ plates_count = 2 /\ idx = 0
    /\ trace[Len(trace)].op = "get_plate_text"
    /\ trace[Len(trace)].st = "raise"
    /\ exc = "error"

\* A step that leaves the with statement of a wrapper.
LeavesScope ==
    \/ Len(stack') < Len(stack)
    \/ pc \in {"plate_exit", "result_exit"}

\* C18: a step that leaves a wrapper's scope while an exception propagates
\* issues the wrapper's destroy call and hands the exception on: it is
\* still propagating afterwards and the operation has not returned a value.
C18_ExitKeepsException ==
    [][(exc = "error" /\ LeavesScope) =>
          /\ Len(trace') = Len(trace) + 1
          /\ trace'[Len(trace')].op \in DestroyOps
          /\ exc' = "error"
          /\ result'.st = "raised"]_vars

C18_Witness ==
    /\ exc = "error"
    /\ result.op = "scan" /\ result.st = "raised"
    /\ trace[Len(trace)].op = "destroy_plate"
    /\ pc = "idle"

\* Handles that were created and not yet passed to their destroy function.
OpenHandles(t) ==
    {t[k].ret : k \in {c \in Created(t) :
        DestroyCount(t[c].ret, Destroyer(t[c].op), t) = 0}}

=============================================================================
